---- MODULE Spec2Model ----
(***************************************************************************)
(* Agent registry of agent-broker: the Registry Service                    *)
(* (internal/registry/registry.go) in front of a Store                     *)
(* (internal/store).  Each worker is one request goroutine; a store call   *)
(* is one atomic step (the in-memory store holds one lock per call), and   *)
(* the steps of one Registry call interleave with other workers' steps.    *)
(*                                                                         *)
(* Strings whose characters matter (agent id, card name, description,      *)
(* query) are sequences of one-character strings; the other strings are    *)
(* atomic, "" being the empty string.  An error is a record: sentinel      *)
(* names the store sentinel it is identical to ("none" for an error made   *)
(* by fmt.Errorf), msg is its text as a sequence of pieces.                *)
(*                                                                         *)
(* The workers draw their requests from a workload, fixed when the service *)
(* starts: Spec serves valid requests (calls racing on one id, calls on    *)
(* two ids), SpecInvalid adds invalid ids and cards, SpecSeeded starts     *)
(* from a store that already holds a record with an embedding.             *)
(*                                                                         *)
(* time.Now() is modelled as a reading of a clock that advances with every *)
(* reading, so that readings ordered by happens-before are strictly        *)
(* increasing (nanosecond monotonic clock).                                *)
(***************************************************************************)
EXTENDS Integers, Sequences, FiniteSets, TLC

\* ---------------------------------------------------------------- bounds
NumProcs == 2
MaxClock == 2

\* the calls of Close made on one store
MaxCloses == 2

Procs == 1..NumProcs

\* ------------------------------------------------------------ characters
MaxIDLen == 64

IDChars == {"a", "b", "Z", "9", "_", "-"}

ByteWidth(c) == IF c = "U+00E9" THEN 2 ELSE 1

RECURSIVE ByteLen(_)
ByteLen(s) == IF s = <<>> THEN 0 ELSE ByteWidth(Head(s)) + ByteLen(Tail(s))

Rep(c, n) == [i \in 1..n |-> c]

\* ---------------------------------------------------------------- errors
Nil == [sentinel |-> "nil", msg |-> <<>>]
ErrNotFound == [sentinel |-> "ErrNotFound", msg |-> <<"agent not found">>]
ErrAlreadyExists == [sentinel |-> "ErrAlreadyExists", msg |-> <<"agent already exists">>]
Errorf(pieces) == [sentinel |-> "none", msg |-> pieces]

\* ------------------------------------------------------------- validator
agentIDPattern(id) == Len(id) >= 1 /\ \A i \in 1..Len(id) : id[i] \in IDChars

validateAgentID(id) ==
  IF id = <<>> THEN Errorf(<<"agent_id is required">>)
  ELSE IF ByteLen(id) > MaxIDLen THEN Errorf(<<"agent_id must be at most 64 characters">>)
  ELSE IF ~agentIDPattern(id) THEN Errorf(<<"agent_id must match pattern ^[a-zA-Z0-9_-]+$">>)
  ELSE Nil

Digit == <<"0", "1", "2", "3", "4", "5", "6", "7", "8", "9">>

RECURSIVE Itoa(_)
Itoa(n) == IF n < 10 THEN <<Digit[n + 1]>> ELSE Itoa(n \div 10) \o <<Digit[(n % 10) + 1]>>

\* one violation is a sequence of pieces; fmt.Sprintf("skill[%d].id is required", i)
SkillMsg(i, field) == <<"skill[">> \o Itoa(i) \o <<"].", field, " is required">>

\* faulty variant: a skill's name is checked before its id
RECURSIVE SkillErrsNameFirst(_, _)
SkillErrsNameFirst(skills, i) ==
  IF i > Len(skills) THEN <<>>
  ELSE (IF skills[i].name = "" THEN <<SkillMsg(i - 1, "name")>> ELSE <<>>)
       \o (IF skills[i].id = "" THEN <<SkillMsg(i - 1, "id")>> ELSE <<>>)
       \o SkillErrsNameFirst(skills, i + 1)

RECURSIVE SkillErrs(_, _)
SkillErrs(skills, i) ==
  IF i > Len(skills) THEN <<>>
  ELSE (IF skills[i].id = "" THEN <<SkillMsg(i - 1, "id")>> ELSE <<>>)
       \o (IF skills[i].name = "" THEN <<SkillMsg(i - 1, "name")>> ELSE <<>>)
       \o SkillErrs(skills, i + 1)

CardErrs(card) ==
  (IF card.name = <<>> THEN << <<"name is required">> >> ELSE <<>>)
  \o (IF card.url = "" THEN << <<"url is required">> >> ELSE <<>>)
  \o (IF card.version = "" THEN << <<"version is required">> >> ELSE <<>>)
  \o (IF Len(card.skills) = 0 THEN << <<"at least one skill is required">> >> ELSE <<>>)
  \o SkillErrs(card.skills, 1)

\* strings.Join(errs, ", ")
RECURSIVE Join(_, _)
Join(errs, sep) ==
  IF errs = <<>> THEN <<>>
  ELSE IF Len(errs) = 1 THEN errs[1]
  ELSE errs[1] \o <<sep>> \o Join(Tail(errs), sep)

\* faulty variant: only the first violation is reported
ValidateAgentCardFirst(card) ==
  LET errs == CardErrs(card)
  IN IF Len(errs) > 0 THEN Errorf(<<"invalid agent card: ">> \o errs[1]) ELSE Nil

ValidateAgentCard(card) ==
  LET errs == CardErrs(card)
  IN IF Len(errs) > 0 THEN Errorf(<<"invalid agent card: ">> \o Join(errs, ", ")) ELSE Nil

\* ---------------------------------------------------------------- records
NoEmbedding == <<>>

\* the nil *RegisteredAgent returned next to an error
NoAgent == [absent |-> TRUE]

RegisteredAgent(id, card, tags, embedding, createdAt, updatedAt) ==
  [ID |-> id, Card |-> card, Tags |-> tags, Embedding |-> embedding,
   CreatedAt |-> createdAt, UpdatedAt |-> updatedAt]

\* ------------------------------------------------- store (internal/store)
\* The store is an ordered map: the sequence of its records in insertion
\* order, at most one per ID.
RECURSIVE IndexOf(_, _)
IndexOf(st, id) ==
  IF st = <<>> THEN 0
  ELSE IF st[Len(st)].ID = id THEN Len(st)
  ELSE IndexOf(SubSeq(st, 1, Len(st) - 1), id)

Has(st, id) == IndexOf(st, id) > 0

\* the ids of the records held
StoredIDs(st) == {st[i].ID : i \in 1..Len(st)}

CreateAgent(st, agent) ==
  IF Has(st, agent.ID) THEN [store |-> st, err |-> ErrAlreadyExists]
  ELSE [store |-> Append(st, agent), err |-> Nil]

GetAgent(st, id) ==
  IF Has(st, id) THEN [agent |-> st[IndexOf(st, id)], err |-> Nil]
  ELSE [agent |-> NoAgent, err |-> ErrNotFound]

UpdateAgent(st, agent) ==
  IF Has(st, agent.ID)
  THEN [store |-> [st EXCEPT ![IndexOf(st, agent.ID)] = agent], err |-> Nil]
  ELSE [store |-> st, err |-> ErrNotFound]

DeleteAgent(st, id) ==
  IF Has(st, id)
  THEN [store |-> SubSeq(st, 1, IndexOf(st, id) - 1) \o SubSeq(st, IndexOf(st, id) + 1, Len(st)),
        err |-> Nil]
  ELSE [store |-> st, err |-> ErrNotFound]

\* strings.ToLower on the letters of the model's alphabet
ToLowerChar(c) ==
  CASE c = "T" -> "t"
    [] c = "R" -> "r"
    [] c = "S" -> "s"
    [] c = "Z" -> "z"
    [] OTHER -> c

ToLower(s) == [i \in 1..Len(s) |-> ToLowerChar(s[i])]

\* strings.Contains
Contains(s, sub) ==
  \E i \in 0..(Len(s) - Len(sub)) : SubSeq(s, i + 1, i + Len(sub)) = sub

Intersects(xs, ys) == \E i \in 1..Len(xs) : \E j \in 1..Len(ys) : xs[i] = ys[j]

SkillIDs(card) == [i \in 1..Len(card.skills) |-> card.skills[i].id]

\* faulty variant: a record matches when any one of the filters matches
MatchesAny(agent, filter) ==
  \/ (Len(filter.Tags) = 0 \/ Intersects(agent.Tags, filter.Tags))
  \/ (Len(filter.Skills) = 0 \/ Intersects(SkillIDs(agent.Card), filter.Skills))
  \/ (Len(filter.Query) = 0
      \/ Contains(ToLower(agent.Card.name), ToLower(filter.Query))
      \/ Contains(ToLower(agent.Card.description), ToLower(filter.Query)))

Matches(agent, filter) ==
  /\ (Len(filter.Tags) = 0 \/ Intersects(agent.Tags, filter.Tags))
  /\ (Len(filter.Skills) = 0 \/ Intersects(SkillIDs(agent.Card), filter.Skills))
  /\ (Len(filter.Query) = 0
      \/ Contains(ToLower(agent.Card.name), ToLower(filter.Query))
      \/ Contains(ToLower(agent.Card.description), ToLower(filter.Query)))

RECURSIVE Select(_, _)
Select(st, filter) ==
  IF st = <<>> THEN <<>>
  ELSE (IF Matches(Head(st), filter) THEN <<Head(st)>> ELSE <<>>) \o Select(Tail(st), filter)

\* faulty variant: a is put before the records created at the same instant
RECURSIVE InsertSortedUnstable(_, _)
InsertSortedUnstable(sorted, a) ==
  IF sorted = <<>> THEN <<a>>
  ELSE IF Head(sorted).CreatedAt > a.CreatedAt
       THEN <<Head(sorted)>> \o InsertSortedUnstable(Tail(sorted), a)
  ELSE <<a>> \o sorted

\* stable insertion of a into a sequence sorted by CreatedAt descending
RECURSIVE InsertSorted(_, _)
InsertSorted(sorted, a) ==
  IF sorted = <<>> THEN <<a>>
  ELSE IF Head(sorted).CreatedAt >= a.CreatedAt THEN <<Head(sorted)>> \o InsertSorted(Tail(sorted), a)
  ELSE <<a>> \o sorted

RECURSIVE SortByCreatedAtDesc(_)
SortByCreatedAtDesc(s) ==
  IF s = <<>> THEN <<>>
  ELSE InsertSorted(SortByCreatedAtDesc(SubSeq(s, 1, Len(s) - 1)), s[Len(s)])

Min(a, b) == IF a < b THEN a ELSE b

\* faulty variant: the total is the length of the page
ListAgentsPageTotal(st, filter) ==
  LET matched == SortByCreatedAtDesc(Select(st, filter))
      page == IF filter.Offset >= Len(matched) THEN <<>>
              ELSE SubSeq(matched, filter.Offset + 1,
                          Min(Len(matched), filter.Offset + filter.Limit))
  IN [Agents |-> page, Total |-> Len(page), err |-> Nil]

ListAgents(st, filter) ==
  LET matched == SortByCreatedAtDesc(Select(st, filter))
      total == Len(matched)
  IN [Agents |-> IF filter.Offset >= total THEN <<>>
                 ELSE SubSeq(matched, filter.Offset + 1, Min(total, filter.Offset + filter.Limit)),
      Total |-> total,
      err |-> Nil]

\* --------------------------------- Registry Service (internal/registry)
DefaultLimit == 20
MaxLimit == 100

CreateInput(id, card, tags) == [ID |-> id, Card |-> card, Tags |-> tags]
UpdateInput(id, card, tags) == [ID |-> id, Card |-> card, Tags |-> tags]
ListInput(offset, limit, tags, skills, query) ==
  [Offset |-> offset, Limit |-> limit, Tags |-> tags, Skills |-> skills, Query |-> query]

\* faulty variant: the id and card violations reported together
CreateValidateAggregate(input) ==
  IF validateAgentID(input.ID) # Nil /\ ValidateAgentCard(input.Card) # Nil
  THEN Errorf(validateAgentID(input.ID).msg \o <<", ">> \o ValidateAgentCard(input.Card).msg)
  ELSE IF validateAgentID(input.ID) # Nil THEN validateAgentID(input.ID)
  ELSE ValidateAgentCard(input.Card)

\* faulty variant: Create checks the id only
CreateValidateIDOnly(input) == validateAgentID(input.ID)

\* Create, up to the first return: the id check, then the card check
CreateValidate(input) ==
  LET err == validateAgentID(input.ID)
  IN IF err # Nil THEN err ELSE ValidateAgentCard(input.Card)

\* faulty variant: the tags of the input are not copied into the record
NewAgentDropTags(input, now) ==
  RegisteredAgent(input.ID, input.Card, <<>>, NoEmbedding, now, now)

\* faulty variant: UpdatedAt is left at the zero time
NewAgentNoUpdatedAt(input, now) ==
  RegisteredAgent(input.ID, input.Card, input.Tags, NoEmbedding, now, 0)

\* Create: the record stamped with now
NewAgent(input, now) ==
  RegisteredAgent(input.ID, input.Card, input.Tags, NoEmbedding, now, now)

\* faulty variant: an existing record is overwritten instead of reported
CreateStoreUpsert(st, agent) ==
  IF CreateAgent(st, agent).err = ErrAlreadyExists
  THEN [store |-> UpdateAgent(st, agent).store, err |-> Nil, agent |-> agent]
  ELSE [store |-> CreateAgent(st, agent).store, err |-> CreateAgent(st, agent).err,
        agent |-> IF CreateAgent(st, agent).err # Nil THEN NoAgent ELSE agent]

\* Create: the store call and what Create returns
CreateStore(st, agent) ==
  LET r == CreateAgent(st, agent)
  IN [store |-> r.store, err |-> r.err, agent |-> IF r.err # Nil THEN NoAgent ELSE agent]

Get(st, id) == GetAgent(st, id)

\* faulty variant: a limit above the maximum is handed on as it is
AgentFilterNoCap(input) ==
  [Offset |-> IF input.Offset < 0 THEN 0 ELSE input.Offset,
   Limit |-> IF input.Limit <= 0 THEN DefaultLimit ELSE input.Limit,
   Tags |-> input.Tags, Skills |-> input.Skills, Query |-> input.Query]

AgentFilter(input) ==
  LET limit == IF input.Limit <= 0 THEN DefaultLimit
               ELSE IF input.Limit > MaxLimit THEN MaxLimit ELSE input.Limit
      offset == IF input.Offset < 0 THEN 0 ELSE input.Offset
  IN [Offset |-> offset, Limit |-> limit, Tags |-> input.Tags,
      Skills |-> input.Skills, Query |-> input.Query]

\* List: the result of s.store.ListAgents, with the filter it was called with
List(st, input) ==
  LET filter == AgentFilter(input)
      r == ListAgents(st, filter)
  IN [Agents |-> r.Agents, Total |-> r.Total, err |-> r.err, Filter |-> filter]

\* faulty variant: the store error is wrapped in a new error
UpdateFetchWrapped(st, input) ==
  IF ValidateAgentCard(input.Card) # Nil
  THEN [err |-> ValidateAgentCard(input.Card), existing |-> NoAgent, calls |-> <<>>]
  ELSE [err |-> IF GetAgent(st, input.ID).err = Nil THEN Nil
                ELSE Errorf(<<"failed to get agent: ">> \o GetAgent(st, input.ID).err.msg),
        existing |-> GetAgent(st, input.ID).agent,
        calls |-> <<"GetAgent">>]

\* faulty variant: the record is fetched before the card is checked
UpdateFetchThenValidate(st, input) ==
  IF GetAgent(st, input.ID).err # Nil
  THEN [err |-> GetAgent(st, input.ID).err, existing |-> NoAgent, calls |-> <<"GetAgent">>]
  ELSE IF ValidateAgentCard(input.Card) # Nil
  THEN [err |-> ValidateAgentCard(input.Card), existing |-> NoAgent, calls |-> <<"GetAgent">>]
  ELSE [err |-> Nil, existing |-> GetAgent(st, input.ID).agent, calls |-> <<"GetAgent">>]

\* faulty variant: Update checks the id as Create does
UpdateFetchCheckID(st, input) ==
  LET idErr == validateAgentID(input.ID)
      err == ValidateAgentCard(input.Card)
      r == GetAgent(st, input.ID)
  IN IF err # Nil THEN [err |-> err, existing |-> NoAgent, calls |-> <<>>]
     ELSE IF idErr # Nil THEN [err |-> idErr, existing |-> NoAgent, calls |-> <<>>]
     ELSE [err |-> r.err, existing |-> r.agent, calls |-> <<"GetAgent">>]

\* faulty variant: the record fetched is the store's first record
UpdateFetchFirst(st, input) ==
  LET err == ValidateAgentCard(input.Card)
      r == GetAgent(st, IF st = <<>> THEN input.ID ELSE st[1].ID)
  IN IF err # Nil
     THEN [err |-> err, existing |-> NoAgent, calls |-> <<>>]
     ELSE [err |-> r.err, existing |-> r.agent, calls |-> <<"GetAgent">>]

\* Update, up to the fetch of the existing record; calls lists the store
\* calls made
UpdateFetch(st, input) ==
  LET err == ValidateAgentCard(input.Card)
      r == GetAgent(st, input.ID)
  IN IF err # Nil
     THEN [err |-> err, existing |-> NoAgent, calls |-> <<>>]
     ELSE [err |-> r.err, existing |-> r.agent, calls |-> <<"GetAgent">>]

\* faulty variant: CreatedAt is stamped again
UpdateApplyRestamp(existing, input, now) ==
  [existing EXCEPT !.Card = input.Card, !.Tags = input.Tags,
                   !.Embedding = NoEmbedding, !.CreatedAt = now, !.UpdatedAt = now]

\* faulty variant: the embedding is kept
UpdateApplyKeepEmbedding(existing, input, now) ==
  [existing EXCEPT !.Card = input.Card, !.Tags = input.Tags, !.UpdatedAt = now]

\* faulty variant: the tags of the fetched record are kept
UpdateApplyKeepTags(existing, input, now) ==
  [existing EXCEPT !.Card = input.Card, !.Embedding = NoEmbedding, !.UpdatedAt = now]

\* Update: the assignments to the fetched record
UpdateApply(existing, input, now) ==
  [existing EXCEPT !.Card = input.Card, !.Tags = input.Tags,
                   !.Embedding = NoEmbedding, !.UpdatedAt = now]

\* faulty variant: a record that is no longer in the store is created again
UpdateStoreUpsert(st, existing) ==
  IF UpdateAgent(st, existing).err = ErrNotFound
  THEN [store |-> CreateAgent(st, existing).store, err |-> Nil, agent |-> existing]
  ELSE [store |-> UpdateAgent(st, existing).store, err |-> Nil, agent |-> existing]

\* Update: the store call and what Update returns
UpdateStore(st, existing) ==
  LET r == UpdateAgent(st, existing)
  IN [store |-> r.store, err |-> r.err, agent |-> IF r.err # Nil THEN NoAgent ELSE existing]

\* faulty variant: every record is removed
DeleteAll(st, id) ==
  [store |-> IF DeleteAgent(st, id).err = Nil THEN <<>> ELSE st, err |-> DeleteAgent(st, id).err]

\* faulty variant: the record is reported deleted and kept
DeleteKeep(st, id) ==
  [store |-> st, err |-> DeleteAgent(st, id).err]

Delete(st, id) == DeleteAgent(st, id)

\* ------------------------------------------ HTTP boundary (internal/handler)
StatusOK == 200
StatusCreated == 201
StatusNoContent == 204
StatusBadRequest == 400
StatusNotFound == 404
StatusConflict == 409
StatusInternalServerError == 500

Response(status, code, body) == [status |-> status, code |-> code, body |-> body]
NoResponse == Response(0, "", "none")

writeError(status, code) == Response(status, code, "error")

\* errors.Is for the errors of the model, none of which wraps another
ErrorsIs(err, target) == err.sentinel = target.sentinel

\* an error of a store backend that is none of the sentinels
ErrUnavailable == Errorf(<<"storage unavailable">>)

\* the request body of POST /v1/admin/agents did not decode
ErrDecode == Errorf(<<"invalid JSON">>)

\* faulty variant: every error of the card fetch is answered as not found
handleGetCardNotFound(err) ==
  IF err # Nil THEN writeError(StatusNotFound, "AGENT_NOT_FOUND")
  ELSE Response(StatusOK, "", "card")

\* GET /v1/agents/{id}/card: the response to what Registry Get returned
handleGetCard(err) ==
  IF err # Nil
  THEN IF ErrorsIs(err, ErrNotFound) THEN writeError(StatusNotFound, "AGENT_NOT_FOUND")
       ELSE writeError(StatusInternalServerError, "INTERNAL_ERROR")
  ELSE Response(StatusOK, "", "card")

\* the administrative handlers: the response to what the Registry returned
AdminRespond(op, err) ==
  CASE op = "Decode" -> writeError(StatusBadRequest, "INVALID_JSON")
    [] err = Nil /\ op = "Create" -> Response(StatusCreated, "", "record")
    [] err = Nil /\ op = "Delete" -> Response(StatusNoContent, "", "empty")
    [] err = Nil /\ op \in {"Get", "Update"} -> Response(StatusOK, "", "record")
    [] err = Nil /\ op = "List" -> Response(StatusOK, "", "list")
    [] err # Nil /\ ErrorsIs(err, ErrNotFound) -> writeError(StatusNotFound, "AGENT_NOT_FOUND")
    [] err # Nil /\ ErrorsIs(err, ErrAlreadyExists) -> writeError(StatusConflict, "AGENT_EXISTS")
    [] OTHER -> writeError(StatusBadRequest, "VALIDATION_ERROR")

Respond(op, err) == IF op = "GetCard" THEN handleGetCard(err) ELSE AdminRespond(op, err)

\* ------------------------------------- QdrantStore (internal/store, qdrant)
\* The qdrant client a store holds is "none" (nil), "open" or "closed".
\* A QdrantStore is its client field; releases counts the calls of
\* client.Close() made through it.
QdrantStore(client, releases) == [client |-> client, releases |-> releases]

ErrNoClient == Errorf(<<"invalid qdrant config">>)
ErrUnhealthy == Errorf(<<"connection refused">>)
ErrClientClosed == Errorf(<<"client connection is closing">>)

\* fmt.Errorf("...: %w", err)
Wrap(prefix, err) == Errorf(<<prefix>> \o err.msg)

\* client.Close() of the qdrant client library: what it may return. A
\* client that is open closes its connection and returns nil; what a client
\* that is closed already answers is the library's choice.
ClientClose(client) == IF client = "open" THEN {Nil} ELSE {Nil, ErrClientClosed}

\* QdrantStore.Ping, part_002 lines 99-105; healthy is the answer of
\* client.HealthCheck
Ping(s, healthy) ==
  IF ~healthy THEN Wrap("qdrant health check failed: ", ErrUnhealthy) ELSE Nil

\* QdrantStore.Close, part_002 lines 108-113; ret is what client.Close()
\* returns. The client field is left as it is.
Close(s, ret) ==
  IF s.client # "none"
  THEN [s |-> QdrantStore("closed", s.releases + 1), err |-> ret]
  ELSE [s |-> s, err |-> Nil]

\* faulty variant: the store is returned without the health probe
NewQdrantStoreLazy(created, healthy) ==
  IF ~created
  THEN [store |-> FALSE, s |-> QdrantStore("none", 0),
        err |-> Wrap("failed to create qdrant client: ", ErrNoClient)]
  ELSE [store |-> TRUE, s |-> QdrantStore("open", 0), err |-> Nil]

\* NewQdrantStore, part_002 lines 70-96; created is whether
\* qdrant.NewClient succeeds, healthy the answer of the health check.
\* store is whether a store is returned, s the store that was built.
NewQdrantStore(created, healthy) ==
  IF ~created
  THEN [store |-> FALSE, s |-> QdrantStore("none", 0),
        err |-> Wrap("failed to create qdrant client: ", ErrNoClient)]
  ELSE LET s == QdrantStore("open", 0)
           err == Ping(s, healthy)
       IN IF err # Nil
          THEN [store |-> FALSE, s |-> Close(s, CHOOSE r \in ClientClose(s.client) : TRUE).s,
                err |-> Wrap("failed to connect to qdrant: ", err)]
          ELSE [store |-> TRUE, s |-> s, err |-> Nil]

\* ---------------------------------------------------------------- inputs
Skill(id, name) == [id |-> id, name |-> name]

AgentCard(name, description, url, version, skills) ==
  [name |-> name, description |-> description, url |-> url, version |-> version,
   skills |-> skills]

CardA == AgentCard(<<"T", "r">>, <<"a">>, "http://localhost:9000", "1.0.0",
                   <<Skill("translate", "Translate")>>)
CardB == AgentCard(<<"S", "u">>, <<>>, "http://localhost:9001", "2.0.0",
                   <<Skill("summarize", "Summarize")>>)
EmptyCard == AgentCard(<<>>, <<>>, "", "", <<>>)
CardBadSkill == [CardB EXCEPT !.skills = <<Skill("", "Summarize"), Skill("s2", "")>>]

CardTwoBadSkills == [CardA EXCEPT !.url = "", !.skills = <<Skill("", ""), Skill("", "")>>]
CardNoNameVersion == [CardA EXCEPT !.name = <<>>, !.version = ""]
CardOnlySkillID == [EmptyCard EXCEPT !.skills = <<Skill("s1", "")>>]

Payload(card, tags) == [Card |-> card, Tags |-> tags]

IdA == <<"a">>
IdB == <<"b", "-", "9">>
IdC == <<"Z">>
IdD == <<"9", "_">>
IdE == <<"b">>
InvalidIDs == {<<>>, Rep("a", MaxIDLen + 1), <<"a", "@">>}
InvalidCards == {EmptyCard, CardBadSkill}
IdMax == Rep("a", MaxIDLen)
IdMixed == <<"b", "-", "Z", "_", "9">>
\* ids the check refuses: empty, one byte too long, with a character the
\* pattern does not allow, and too long with such characters
RefusedIDs ==
  InvalidIDs \cup {<<"U+00E9">>, Rep("@", MaxIDLen + 1), Rep("U+00E9", MaxIDLen \div 2 + 1)}

\* A workload is the set of requests the workers draw from: ids, card and
\* tags pairs, and List inputs.
Workload(name, ids, payloads, lists) ==
  [name |-> name, ids |-> ids, payloads |-> payloads, lists |-> lists]

\* calls on one id with one card
LoadOne ==
  Workload("one", {IdA}, {Payload(CardA, <<>>)}, {ListInput(0, 0, <<>>, <<>>, <<>>)})

\* concurrent calls on one id, with two distinguishable card and tags pairs
LoadRace ==
  Workload("race", {IdA},
           {Payload(CardA, <<>>), Payload(CardB, <<"prod">>)},
           {ListInput(0, 0, <<>>, <<>>, <<>>)})

\* calls on two ids
LoadMulti ==
  Workload("multi", {IdA, IdB},
           {Payload(CardA, <<"prod">>)},
           {ListInput(0, 0, <<>>, <<>>, <<>>), ListInput(1, 1, <<"prod">>, <<>>, <<"t">>)})

\* valid and invalid ids and cards
LoadInvalid ==
  Workload("invalid", {IdA} \cup InvalidIDs,
           {Payload(CardA, <<"prod">>)} \cup {Payload(c, <<>>) : c \in InvalidCards},
           {ListInput(0 - 1, MaxLimit + 1, <<>>, <<"translate">>, <<>>)})

\* List inputs around the pagination limits and over every filter field
ListInputs ==
  {ListInput(0 - 1, MaxLimit + 1, <<>>, <<>>, <<>>),
   ListInput(1, 2, <<>>, <<>>, <<>>),
   ListInput(5, 0, <<>>, <<>>, <<>>),
   ListInput(0, MaxLimit, <<"prod">>, <<>>, <<>>),
   ListInput(1, 1, <<"dev", "ml">>, <<>>, <<>>),
   ListInput(0, 10, <<>>, <<"translate">>, <<>>),
   ListInput(0, 10, <<>>, <<>>, <<"t", "R">>),
   ListInput(0, 0 - 1, <<"prod">>, <<"summarize">>, <<"u">>)}

\* calls on one id of a store that holds several records
LoadList ==
  Workload("list", {IdA}, {Payload(CardB, <<"dev">>)}, ListInputs)

\* one id, valid and invalid cards
LoadCards ==
  Workload("cards", {IdA},
           {Payload(c, <<>>) : c \in {CardA, EmptyCard, CardBadSkill, CardTwoBadSkills,
                                      CardNoNameVersion, CardOnlySkillID}},
           {ListInput(0, 0, <<>>, <<>>, <<>>)})

\* one card, valid and refused ids
LoadIDs ==
  Workload("ids", {IdMax, IdMixed} \cup RefusedIDs, {Payload(CardA, <<>>)},
           {ListInput(0, 0, <<>>, <<>>, <<>>)})

Workloads == {LoadRace, LoadMulti}

\* ----------------------------------------------------------------- state
VARIABLES
  load,      \* the workload: the requests the workers draw from
  store,     \* the store's records, in insertion order
  clock,     \* the last reading of time.Now()
  pc,        \* per worker: where it is in its Registry call
  inp,       \* per worker: the input of the call in progress
  existing,  \* per worker: Create's agent / Update's existing
  calls,     \* per worker: the store calls made so far by the call in progress
  last,      \* the Registry call that returned last: input, result, store calls
  before,    \* history: per worker, the record Update fetched, as fetched
  dirty,     \* history: per worker, another worker wrote inp.ID since the fetch
  live,      \* history: ids whose Create succeeded and whose Delete did not since
  deleted,   \* history: ids whose Delete succeeded and whose Create did not since
  qdrant     \* the QdrantStore of the process: how it was built, its client, its Close calls

vars == <<load, store, clock, pc, inp, existing, calls, last, before, dirty, live, deleted,
          qdrant>>

NoInput == [none |-> TRUE]
NoCall == [proc |-> 0, op |-> "none", in |-> NoInput, err |-> Nil, out |-> NoAgent,
           calls |-> <<>>, http |-> NoResponse]

\* a call that returned, with the response of the handler that made it
Returned(p, op, in, err, out, cs) ==
  [proc |-> p, op |-> op, in |-> in, err |-> err, out |-> out, calls |-> cs,
   http |-> Respond(op, err)]

\* the process before run() builds its store
NotBuilt ==
  [phase |-> "new", created |-> FALSE, healthy |-> FALSE, store |-> FALSE,
   s |-> QdrantStore("none", 0), err |-> Nil, closes |-> 0, ret |-> Nil]

\* the process after NewQdrantStore returned
Built(created, healthy) ==
  LET r == NewQdrantStore(created, healthy)
  IN [phase |-> "built", created |-> created, healthy |-> healthy, store |-> r.store,
      s |-> r.s, err |-> r.err, closes |-> 0, ret |-> Nil]

\* a process whose store was built and is serving
Connected == Built(TRUE, TRUE)

\* a new service over an empty store, serving one of the workloads
Start(loads) ==
  /\ qdrant = Connected
  /\ load \in loads
  /\ store = <<>>
  /\ clock = 0
  /\ pc = [p \in Procs |-> "idle"]
  /\ inp = [p \in Procs |-> NoInput]
  /\ existing = [p \in Procs |-> NoAgent]
  /\ calls = [p \in Procs |-> <<>>]
  /\ last = NoCall
  /\ before = [p \in Procs |-> NoAgent]
  /\ dirty = [p \in Procs |-> FALSE]
  /\ live = {}
  /\ deleted = {}

Init == Start(Workloads)

\* the same service, serving valid and invalid requests
InitInvalid == Start({LoadInvalid})

\* the same service, serving the requests the card check decides
InitCards == Start({LoadCards})

\* the same service, serving the requests the id check decides
InitIDs == Start({LoadIDs})

\* workers other than p that are between Update's fetch and its store call
\* on id see the record change under them
Touch(p, id) ==
  [q \in Procs |-> IF q # p /\ pc[q] \in {"update_now", "update_store"} /\ inp[q].ID = id
                   THEN TRUE ELSE dirty[q]]

Idle(p) ==
  /\ pc' = [pc EXCEPT ![p] = "idle"]
  /\ inp' = [inp EXCEPT ![p] = NoInput]
  /\ existing' = [existing EXCEPT ![p] = NoAgent]
  /\ calls' = [calls EXCEPT ![p] = <<>>]
  /\ before' = [before EXCEPT ![p] = NoAgent]

\* Create, lines 41-57: validation, then now := time.Now()
CreateBegin(p) ==
  /\ pc[p] = "idle"
  /\ \E id \in load.ids, pl \in load.payloads :
       LET input == CreateInput(id, pl.Card, pl.Tags)
           err == CreateValidate(input)
       IN IF err # Nil
          THEN /\ last' = Returned(p, "Create", input, err, NoAgent, <<>>)
               /\ UNCHANGED <<store, clock, pc, inp, existing, calls, before, dirty, live, deleted>>
          ELSE /\ clock < MaxClock
               /\ clock' = clock + 1
               /\ pc' = [pc EXCEPT ![p] = "create_store"]
               /\ inp' = [inp EXCEPT ![p] = input]
               /\ existing' = [existing EXCEPT ![p] = NewAgent(input, clock')]
               /\ UNCHANGED <<store, calls, last, before, dirty, live, deleted>>

\* Create, lines 59-63: s.store.CreateAgent and the return
CreateCommit(p) ==
  /\ pc[p] = "create_store"
  /\ LET r == CreateStore(store, existing[p])
     IN /\ store' = r.store
        /\ last' = Returned(p, "Create", inp[p], r.err, r.agent, <<"CreateAgent">>)
        /\ IF r.err = Nil
           THEN /\ live' = live \cup {inp[p].ID}
                /\ deleted' = deleted \ {inp[p].ID}
                /\ dirty' = [Touch(p, inp[p].ID) EXCEPT ![p] = FALSE]
           ELSE /\ UNCHANGED <<live, deleted>>
                /\ dirty' = [dirty EXCEPT ![p] = FALSE]
  /\ Idle(p)
  /\ UNCHANGED clock

\* Get, lines 67-69
GetCall(p) ==
  /\ pc[p] = "idle"
  /\ \E id \in load.ids :
       LET r == Get(store, id)
       IN last' = Returned(p, "Get", [ID |-> id], r.err, r.agent, <<"GetAgent">>)
  /\ UNCHANGED <<store, clock, pc, inp, existing, calls, before, dirty, live, deleted>>

\* List, lines 86-104
ListCall(p) ==
  /\ pc[p] = "idle"
  /\ \E input \in load.lists :
       LET r == List(store, input)
       IN last' = Returned(p, "List", input, r.err,
                           [Agents |-> r.Agents, Total |-> r.Total, Filter |-> r.Filter],
                           <<"ListAgents">>)
  /\ UNCHANGED <<store, clock, pc, inp, existing, calls, before, dirty, live, deleted>>

\* Update, lines 117-125: the card check and s.store.GetAgent
UpdateBegin(p) ==
  /\ pc[p] = "idle"
  /\ \E id \in load.ids, pl \in load.payloads :
       LET input == UpdateInput(id, pl.Card, pl.Tags)
           r == UpdateFetch(store, input)
       IN IF r.err # Nil
          THEN /\ last' = Returned(p, "Update", input, r.err, NoAgent, r.calls)
               /\ UNCHANGED <<pc, inp, existing, calls, before, dirty>>
          ELSE /\ pc' = [pc EXCEPT ![p] = "update_now"]
               /\ inp' = [inp EXCEPT ![p] = input]
               /\ existing' = [existing EXCEPT ![p] = r.existing]
               /\ calls' = [calls EXCEPT ![p] = r.calls]
               /\ before' = [before EXCEPT ![p] = r.existing]
               /\ dirty' = [dirty EXCEPT ![p] = FALSE]
               /\ UNCHANGED last
  /\ UNCHANGED <<store, clock, live, deleted>>

\* Update, lines 127-130: the assignments, with time.Now()
UpdateStamp(p) ==
  /\ pc[p] = "update_now"
  /\ clock < MaxClock
  /\ clock' = clock + 1
  /\ existing' = [existing EXCEPT ![p] = UpdateApply(existing[p], inp[p], clock')]
  /\ pc' = [pc EXCEPT ![p] = "update_store"]
  /\ UNCHANGED <<store, inp, calls, last, before, dirty, live, deleted>>

\* Update, lines 132-136: s.store.UpdateAgent and the return
UpdateCommit(p) ==
  /\ pc[p] = "update_store"
  /\ LET r == UpdateStore(store, existing[p])
     IN /\ store' = r.store
        /\ last' = Returned(p, "Update", inp[p], r.err, r.agent,
                            Append(calls[p], "UpdateAgent"))
        /\ dirty' = IF r.err = Nil THEN [Touch(p, existing[p].ID) EXCEPT ![p] = FALSE]
                    ELSE [dirty EXCEPT ![p] = FALSE]
  /\ Idle(p)
  /\ UNCHANGED <<clock, live, deleted>>

\* Delete, lines 140-142
DeleteCall(p) ==
  /\ pc[p] = "idle"
  /\ \E id \in load.ids :
       LET r == Delete(store, id)
       IN /\ store' = r.store
          /\ last' = Returned(p, "Delete", [ID |-> id], r.err, NoAgent, <<"DeleteAgent">>)
          /\ IF r.err = Nil
             THEN /\ live' = live \ {id}
                  /\ deleted' = deleted \cup {id}
                  /\ dirty' = Touch(p, id)
             ELSE UNCHANGED <<live, deleted, dirty>>
  /\ UNCHANGED <<clock, pc, inp, existing, calls, before>>

Next ==
  /\ UNCHANGED <<load, qdrant>>
  /\ \E p \in Procs :
       \/ CreateBegin(p)
       \/ CreateCommit(p)
       \/ GetCall(p)
       \/ ListCall(p)
       \/ UpdateBegin(p)
       \/ UpdateStamp(p)
       \/ UpdateCommit(p)
       \/ DeleteCall(p)

Spec == Init /\ [][Next]_vars

\* GET /v1/agents/{id}/card, agents.go lines 28-44; the store behind the
\* Registry may fail with an error of its own
GetCardCall(p) ==
  /\ pc[p] = "idle"
  /\ \E id \in load.ids, fails \in BOOLEAN :
       LET r == IF fails THEN [agent |-> NoAgent, err |-> ErrUnavailable] ELSE Get(store, id)
       IN last' = Returned(p, "GetCard", [ID |-> id], r.err, r.agent, <<"GetAgent">>)
  /\ UNCHANGED <<store, clock, pc, inp, existing, calls, before, dirty, live, deleted>>

\* POST /v1/admin/agents with a body that does not decode: no Registry call
PostUndecodable(p) ==
  /\ pc[p] = "idle"
  /\ last' = Returned(p, "Decode", NoInput, ErrDecode, NoAgent, <<>>)
  /\ UNCHANGED <<store, clock, pc, inp, existing, calls, before, dirty, live, deleted>>

\* the service behind its HTTP handlers
NextHTTP ==
  \/ Next
  \/ /\ UNCHANGED <<load, qdrant>>
     /\ \E p \in Procs : GetCardCall(p) \/ PostUndecodable(p)

InitHTTP == Start({LoadRace})

SpecHTTP == InitHTTP /\ [][NextHTTP]_vars

\* run(), main.go lines 102-111: the store is built; on an error run
\* returns and nothing is served
BuildStore ==
  /\ qdrant.phase = "new"
  /\ \E created \in BOOLEAN, healthy \in BOOLEAN : qdrant' = Built(created, healthy)
  /\ UNCHANGED <<load, store, clock, pc, inp, existing, calls, last, before, dirty, live,
                 deleted>>

\* run(), main.go lines 128-143: the handlers serve over the store that was
\* returned until the server stops
Serve ==
  /\ qdrant.store
  /\ qdrant.closes = 0
  /\ Next

\* a call of Close on the store that was returned, after the server has
\* stopped (main.go lines 112-116, and any later call by the owner)
CloseCall ==
  /\ qdrant.store
  /\ \A p \in Procs : pc[p] = "idle"
  /\ qdrant.closes < MaxCloses
  /\ \E ret \in ClientClose(qdrant.s.client) :
       LET c == Close(qdrant.s, ret)
       IN qdrant' = [qdrant EXCEPT !.s = c.s, !.ret = c.err, !.closes = @ + 1]
  /\ UNCHANGED <<load, store, clock, pc, inp, existing, calls, last, before, dirty, live,
                 deleted>>

NextQdrant == BuildStore \/ Serve \/ CloseCall

InitQdrant ==
  /\ qdrant = NotBuilt
  /\ load = LoadOne
  /\ store = <<>>
  /\ clock = 0
  /\ pc = [p \in Procs |-> "idle"]
  /\ inp = [p \in Procs |-> NoInput]
  /\ existing = [p \in Procs |-> NoAgent]
  /\ calls = [p \in Procs |-> <<>>]
  /\ last = NoCall
  /\ before = [p \in Procs |-> NoAgent]
  /\ dirty = [p \in Procs |-> FALSE]
  /\ live = {}
  /\ deleted = {}

SpecQdrant == InitQdrant /\ [][NextQdrant]_vars

SpecInvalid == InitInvalid /\ [][Next]_vars

SpecCards == InitCards /\ [][Next]_vars

SpecIDs == InitIDs /\ [][Next]_vars

\* The vector the external embedder returns for a card's text: one vector
\* per card, different cards giving different vectors.
EmbeddingOf(card) ==
  CASE card = CardA -> <<1>>
    [] card = CardB -> <<2>>
    [] OTHER -> <<3>>

\* A store that already holds one record when the service starts, indexed
\* with the embedding of its card.
SeedStores ==
  {<<RegisteredAgent(IdA, CardA, tags, EmbeddingOf(CardA), 0, 0)>> : tags \in {<<>>, <<"prod">>}}

InitSeeded ==
  /\ qdrant = Connected
  /\ load = LoadRace
  /\ store \in SeedStores
  /\ clock = 0
  /\ pc = [p \in Procs |-> "idle"]
  /\ inp = [p \in Procs |-> NoInput]
  /\ existing = [p \in Procs |-> NoAgent]
  /\ calls = [p \in Procs |-> <<>>]
  /\ last = NoCall
  /\ before = [p \in Procs |-> NoAgent]
  /\ dirty = [p \in Procs |-> FALSE]
  /\ live = {IdA}
  /\ deleted = {}

SpecSeeded == InitSeeded /\ [][Next]_vars

\* A store that already holds five records when the service starts, some
\* of them created at the same instant.
SeedList ==
  <<RegisteredAgent(IdA, CardA, <<"prod", "ml">>, NoEmbedding, 0 - 3, 0 - 3),
    RegisteredAgent(IdB, CardB, <<"dev">>, NoEmbedding, 0 - 3, 0 - 3),
    RegisteredAgent(IdC, CardB, <<"prod">>, NoEmbedding, 0 - 2, 0 - 2),
    RegisteredAgent(IdD, CardA, <<>>, NoEmbedding, 0 - 1, 0 - 1),
    RegisteredAgent(IdE, CardB, <<>>, NoEmbedding, 0 - 1, 0)>>

InitList ==
  /\ qdrant = Connected
  /\ load = LoadList
  /\ store = SeedList
  /\ clock = 0
  /\ pc = [p \in Procs |-> "idle"]
  /\ inp = [p \in Procs |-> NoInput]
  /\ existing = [p \in Procs |-> NoAgent]
  /\ calls = [p \in Procs |-> <<>>]
  /\ last = NoCall
  /\ before = [p \in Procs |-> NoAgent]
  /\ dirty = [p \in Procs |-> FALSE]
  /\ live = StoredIDs(store)
  /\ deleted = {}

SpecList == InitList /\ [][Next]_vars

\* ================================================================ claims
\* the step is the return of worker p's Create from its store call
CreateReturns(p) == pc[p] = "create_store" /\ pc'[p] = "idle"

\* the step is the return of worker p's Update from its store call
UpdateReturns(p) == pc[p] = "update_store" /\ pc'[p] = "idle"

\* the step is the return of a Registry call
CallReturns == last' # last

\* C1: a Create with a valid id that is not in the store and a valid card
\* succeeds, and a Get of that id right after it returns a record with the
\* id, card and tags of the input and createdAt equal to updatedAt.
C1_CreateThenGet ==
  [][\A p \in Procs :
       (CreateReturns(p) /\ ~Has(store, inp[p].ID)) =>
         LET g == Get(store', inp[p].ID)
         IN /\ last'.err = Nil
            /\ g.err = Nil
            /\ g.agent.ID = inp[p].ID
            /\ g.agent.Card = inp[p].Card
            /\ g.agent.Tags = inp[p].Tags
            /\ g.agent.CreatedAt = g.agent.UpdatedAt]_vars

C1_Witness ==
  /\ last.op = "Create"
  /\ last.err = Nil
  /\ Get(store, last.in.ID).err = Nil
  /\ Get(store, last.in.ID).agent.Card = last.in.Card
  /\ Get(store, last.in.ID).agent.Tags = <<"prod">>

\* C2 as stated: a Create whose id is in the store fails with
\* ErrAlreadyExists whatever its card, valid or not, and leaves the store
\* as it was.
C2_DuplicateAlwaysAlreadyExists ==
  [][(CallReturns /\ last'.op = "Create" /\ Has(store, last'.in.ID)) =>
       (last'.err = ErrAlreadyExists /\ store' = store)]_vars

\* C2 amended: a Create whose id is in the store fails with
\* ErrAlreadyExists when its card is valid and with the card's validation
\* error when it is not; either way the store is left as it was.
C2_DuplicateFails ==
  [][(CallReturns /\ last'.op = "Create" /\ Has(store, last'.in.ID)) =>
       /\ last'.err = IF ValidateAgentCard(last'.in.Card) = Nil THEN ErrAlreadyExists
                      ELSE ValidateAgentCard(last'.in.Card)
       /\ last'.out = NoAgent
       /\ store' = store]_vars

C2_Witness ==
  /\ last.op = "Create"
  /\ last.err = ErrAlreadyExists
  /\ Has(store, last.in.ID)

\* C3: the store never holds two records with one id: an unfiltered List
\* of a page that takes the whole store returns each id once, the ids are
\* those created and not deleted since, and total is their number.
ListAll == List(store, ListInput(0, MaxLimit, <<>>, <<>>, <<>>))

C3_OneRecordPerID ==
  Len(store) <= MaxLimit =>
    /\ \A i, j \in 1..Len(ListAll.Agents) :
         ListAll.Agents[i].ID = ListAll.Agents[j].ID => i = j
    /\ StoredIDs(ListAll.Agents) = live
    /\ ListAll.Total = Cardinality(live)

C3_Witness ==
  /\ live = {IdB}
  /\ IdA \in deleted
  /\ ListAll.Total = 1

\* C4: an Update that succeeds with no other worker having written its id
\* between its fetch and its store call returns and stores a record with
\* the createdAt of the record it fetched and an updatedAt greater than the
\* fetched one.
C4_UpdateTimestamps ==
  [][\A p \in Procs :
       (UpdateReturns(p) /\ last'.err = Nil /\ ~dirty[p]) =>
         /\ last'.out.CreatedAt = before[p].CreatedAt
         /\ last'.out.UpdatedAt > before[p].UpdatedAt
         /\ Get(store', inp[p].ID).agent = last'.out
         /\ Get(store, inp[p].ID).agent = before[p]]_vars

C4_Witness ==
  /\ last.op = "Update"
  /\ last.err = Nil
  /\ last.out.CreatedAt < last.out.UpdatedAt
  /\ Get(store, last.in.ID).agent = last.out

\* C5: every stored record has no embedding or the embedding of its
\* current card, and the record a successful Update stores and returns has
\* no embedding.
EmbeddingCurrent ==
  \A i \in 1..Len(store) :
    store[i].Embedding = NoEmbedding \/ store[i].Embedding = EmbeddingOf(store[i].Card)

C5_EmbeddingNeverStale ==
  /\ []EmbeddingCurrent
  /\ [][\A p \in Procs :
          (CreateReturns(p) \/ UpdateReturns(p)) /\ last'.err = Nil =>
            /\ last'.out.Embedding = NoEmbedding
            /\ Get(store', inp[p].ID).agent.Embedding = NoEmbedding]_vars

\* an Update gave the seeded record, which carried the embedding of CardA,
\* another card
C5_Witness ==
  /\ last.op = "Update"
  /\ last.err = Nil
  /\ last.out.CreatedAt = 0
  /\ last.out.Card = CardB
  /\ Get(store, IdA).agent = last.out
  /\ Get(store, IdA).agent.Embedding = NoEmbedding

C7_DeletedStaysNotFound ==
  \A id \in deleted : Get(store, id).err = ErrNotFound /\ Get(store, id).agent = NoAgent

C7_Witness ==
  /\ last.op = "Get"
  /\ last.in.ID \in deleted
  /\ last.err = ErrNotFound
  /\ last.in.ID \notin StoredIDs(store)

\* C8: Get, Delete and Update with a valid card, called for an id that is
\* not in the store, return ErrNotFound itself and leave the store as it
\* was.
C8_AbsentIsNotFound ==
  [][(/\ CallReturns
      /\ last'.op \in {"Get", "Update", "Delete"}
      /\ (last'.op = "Update" => ValidateAgentCard(last'.in.Card) = Nil)
      /\ ~Has(store, last'.in.ID)) =>
       (last'.err = ErrNotFound /\ last'.out = NoAgent /\ store' = store)]_vars

\* an Update fetched its record and found it deleted at its store call
C8_Witness ==
  /\ last.op = "Update"
  /\ ValidateAgentCard(last.in.Card) = Nil
  /\ last.err = ErrNotFound
  /\ last.calls = <<"GetAgent", "UpdateAgent">>
  /\ last.in.ID \in deleted

\* C9: a Create with an invalid id or card, and an Update with an invalid
\* card, return an error without having called the store, and the store is
\* as it was.
C9_ValidationBeforeStore ==
  [][(/\ CallReturns
      /\ \/ /\ last'.op = "Create"
            /\ (validateAgentID(last'.in.ID) # Nil \/ ValidateAgentCard(last'.in.Card) # Nil)
         \/ /\ last'.op = "Update"
            /\ ValidateAgentCard(last'.in.Card) # Nil) =>
       (last'.err \notin {Nil, ErrNotFound, ErrAlreadyExists}
        /\ last'.calls = <<>>
        /\ store' = store)]_vars

C9_Witness ==
  /\ last.op = "Update"
  /\ ValidateAgentCard(last.in.Card) # Nil
  /\ Has(store, last.in.ID)
  /\ last.err # Nil
  /\ last.calls = <<>>

\* C10: a Create whose id and card are both invalid returns the id error
\* alone; its text holds none of the card's violations.
C10_IDErrorAlone ==
  [][(/\ CallReturns
      /\ last'.op = "Create"
      /\ validateAgentID(last'.in.ID) # Nil
      /\ ValidateAgentCard(last'.in.Card) # Nil) =>
       /\ last'.err = validateAgentID(last'.in.ID)
       /\ \A i \in 1..Len(CardErrs(last'.in.Card)) :
            ~Contains(last'.err.msg, CardErrs(last'.in.Card)[i])]_vars

C10_Witness ==
  /\ last.op = "Create"
  /\ validateAgentID(last.in.ID) # Nil
  /\ ValidateAgentCard(last.in.Card) # Nil
  /\ last.err = validateAgentID(last.in.ID)

\* C11: the filter Registry List hands to the store has limit 20 when the
\* input limit is 0 or negative, 100 when it is above 100 and the input limit
\* otherwise; offset 0 when the input offset is negative and the input offset
\* otherwise; and the input's tags, skills and query unchanged.
C11_ListNormalizes ==
  last.op = "List" =>
    /\ last.out.Filter.Limit = (IF last.in.Limit <= 0 THEN 20
                                ELSE IF last.in.Limit > 100 THEN 100 ELSE last.in.Limit)
    /\ last.out.Filter.Offset = (IF last.in.Offset < 0 THEN 0 ELSE last.in.Offset)
    /\ last.out.Filter.Tags = last.in.Tags
    /\ last.out.Filter.Skills = last.in.Skills
    /\ last.out.Filter.Query = last.in.Query

C11_Witness ==
  /\ last.op = "List"
  /\ last.in.Limit > 100
  /\ last.in.Offset < 0
  /\ last.out.Filter.Limit = 100
  /\ last.out.Filter.Offset = 0

\* the records List returns for the input's filters when the page is the
\* whole listing
Listing(st, input) == List(st, [input EXCEPT !.Offset = 0, !.Limit = MaxLimit]).Agents

\* C12: ListAgents returns as total the number of records that match, counted
\* before pagination, and as page the matched, sorted sequence without its
\* first offset records and cut to at most limit records, so the page has
\* min(limit, max(0, total - offset)) records; with offset >= total the page
\* is empty and the total is still the full count.
C12_Pagination ==
  \A input \in load.lists :
    LET r == List(store, input)
        f == r.Filter
        matching == {i \in 1..Len(store) : Matches(store[i], f)}
        total == Cardinality(matching)
        all == Listing(store, input)
        rest == IF total - f.Offset > 0 THEN total - f.Offset ELSE 0
    IN /\ r.Total = total
       /\ Len(all) = total
       /\ Len(r.Agents) = (IF f.Limit < rest THEN f.Limit ELSE rest)
       /\ \A k \in 1..Len(r.Agents) : r.Agents[k] = all[f.Offset + k]
       /\ (f.Offset >= total => r.Agents = <<>>)

C12_Witness ==
  /\ last.op = "List"
  /\ last.in.Offset = 1
  /\ last.in.Limit = 2
  /\ last.out.Total = 5
  /\ Len(last.out.Agents) = 2
  /\ last.out.Agents[1].ID = IdE
  /\ last.out.Agents[2].ID = IdC

Range(s) == {s[i] : i \in 1..Len(s)}

\* C13: a record is listed exactly when the tags filter is empty or shares a
\* tag with the record, and the skills filter is empty or shares an id with
\* the card's skills, and the query is empty or is, letter case ignored, a
\* substring of the card's name or description: a record tagged
\* ["prod","ml"] is listed for tags ["prod"] alone, one tagged ["dev"] is not.
C13_FilterConjunction ==
  \A input \in load.lists :
    LET listed == {a.ID : a \in Range(Listing(store, input))}
        tagsOK(a) == input.Tags = <<>> \/ Range(a.Tags) \cap Range(input.Tags) # {}
        skillsOK(a) == \/ input.Skills = <<>>
                       \/ \E sk \in Range(a.Card.skills) : sk.id \in Range(input.Skills)
        queryOK(a) == \/ input.Query = <<>>
                      \/ Contains(ToLower(a.Card.name), ToLower(input.Query))
                      \/ Contains(ToLower(a.Card.description), ToLower(input.Query))
    IN \A a \in Range(store) :
         /\ a.ID \in listed <=> (tagsOK(a) /\ skillsOK(a) /\ queryOK(a))
         /\ (input.Tags = <<"prod">> /\ input.Skills = <<>> /\ input.Query = <<>>)
              => /\ a.Tags = <<"prod", "ml">> => a.ID \in listed
                 /\ a.Tags = <<"dev">> => a.ID \notin listed

C13_Witness ==
  /\ last.op = "List"
  /\ last.in.Tags = <<"prod">>
  /\ last.in.Skills = <<>>
  /\ last.in.Query = <<>>
  /\ \E a \in Range(store) : a.Tags = <<"prod", "ml">> /\ a \in Range(last.out.Agents)
  /\ \E a \in Range(store) : a.Tags = <<"dev">> /\ a \notin Range(last.out.Agents)

\* C14: the matched records are listed by createdAt descending, and records
\* with the same createdAt in the order in which they were inserted, so
\* that List calls on an unchanged store return the same order.
C14_SortedStable ==
  \A input \in load.lists :
    LET all == Listing(store, input)
    IN \A i, j \in 1..Len(all) :
         i < j => \/ all[i].CreatedAt > all[j].CreatedAt
                  \/ /\ all[i].CreatedAt = all[j].CreatedAt
                     /\ IndexOf(store, all[i].ID) < IndexOf(store, all[j].ID)

C14_Witness ==
  /\ last.op = "List"
  /\ Len(last.out.Agents) >= 4
  /\ last.out.Agents[1].CreatedAt > last.out.Agents[2].CreatedAt
  /\ last.out.Agents[2].CreatedAt = last.out.Agents[3].CreatedAt
  /\ IndexOf(store, last.out.Agents[1].ID) > IndexOf(store, last.out.Agents[2].ID)

\* err.Error(): the pieces of a message as one string
RECURSIVE Text(_)
Text(pieces) == IF pieces = <<>> THEN "" ELSE Head(pieces) \o Text(Tail(pieces))

\* the last call that returned ran ValidateAgentCard on its input's card
CardChecked ==
  \/ last.op = "Update"
  \/ last.op = "Create" /\ validateAgentID(last.in.ID) = Nil

\* C15 as stated: ValidateAgentCard on a completely empty card returns an
\* error whose message is equal to "name is required, url is required,
\* version is required, at least one skill is required".
C15_MessageIsTheList ==
  (CardChecked /\ last.in.Card = EmptyCard) =>
    Text(last.err.msg) =
      "name is required, url is required, version is required, at least one skill is required"

\* C15, amended: ValidateAgentCard on a completely empty card returns an
\* error whose message is "invalid agent card: " followed by "name is
\* required, url is required, version is required, at least one skill is
\* required".
C15_MessageIsPrefixAndList ==
  (CardChecked /\ last.in.Card = EmptyCard) =>
    /\ last.err # Nil
    /\ Text(last.err.msg) =
         "invalid agent card: name is required, url is required, version is required, at least one skill is required"

C15_Witness ==
  /\ CardChecked
  /\ last.in.Card = EmptyCard
  /\ last.err.msg # <<>>

\* strings joined by ", "
RECURSIVE Joined(_)
Joined(ss) ==
  IF ss = <<>> THEN ""
  ELSE IF Len(ss) = 1 THEN ss[1]
  ELSE ss[1] \o ", " \o Joined(Tail(ss))

\* the rules of a card in the order of the report, each with its verdict
Rules(card) ==
  <<[bad |-> card.name = <<>>, text |-> "name is required"],
    [bad |-> card.url = "", text |-> "url is required"],
    [bad |-> card.version = "", text |-> "version is required"],
    [bad |-> card.skills = <<>>, text |-> "at least one skill is required"]>>
  \o [k \in 1..(2 * Len(card.skills)) |->
        LET i == (k + 1) \div 2
        IN IF k % 2 = 1
           THEN [bad |-> card.skills[i].id = "",
                 text |-> "skill[" \o ToString(i - 1) \o "].id is required"]
           ELSE [bad |-> card.skills[i].name = "",
                 text |-> "skill[" \o ToString(i - 1) \o "].name is required"]]

IsBad(rule) == rule.bad

\* C16: ValidateAgentCard returns nil exactly when name, url and version are
\* non-empty, skills is non-empty and every skill has a non-empty id and
\* name; otherwise it returns one error that lists every violated rule once,
\* joined by ", ", in the order name, url, version, skills-empty, then for
\* each skill position i in increasing order "skill[i].id is required"
\* before "skill[i].name is required".
C16_EveryViolationInOrder ==
  CardChecked =>
    LET card == last.in.Card
        valid == /\ card.name # <<>> /\ card.url # "" /\ card.version # ""
                 /\ card.skills # <<>>
                 /\ \A i \in 1..Len(card.skills) :
                      card.skills[i].id # "" /\ card.skills[i].name # ""
        violated == SelectSeq(Rules(card), IsBad)
    IN IF valid
       THEN last.calls # <<>>
       ELSE /\ last.calls = <<>>
            /\ last.err.sentinel = "none"
            /\ Text(last.err.msg) =
                 "invalid agent card: " \o Joined([k \in 1..Len(violated) |-> violated[k].text])

C16_Witness ==
  /\ CardChecked
  /\ last.in.Card = CardTwoBadSkills
  /\ Text(last.err.msg) =
       "invalid agent card: url is required, skill[0].id is required, skill[0].name is required, skill[1].id is required, skill[1].name is required"

\* C17 as stated: the id check accepts an id exactly when it has 1 to 64
\* characters, all of them letters, digits, underscore or hyphen; it rejects
\* the empty id with "agent_id is required", an id of more than 64 characters
\* with "agent_id must be at most 64 characters", and an id of at most 64
\* characters with any other character with the pattern message.
C17_IDCheck ==
  (last.op = "Create" /\ ValidateAgentCard(last.in.Card) = Nil) =>
    LET id == last.in.ID
        allowed == \A i \in 1..Len(id) : id[i] \in IDChars
        accepted == last.calls # <<>>
    IN /\ accepted <=> (Len(id) \in 1..64 /\ allowed)
       /\ Len(id) = 0 => Text(last.err.msg) = "agent_id is required"
       /\ Len(id) > 64 => Text(last.err.msg) = "agent_id must be at most 64 characters"
       /\ (Len(id) \in 1..64 /\ ~allowed) =>
            Text(last.err.msg) = "agent_id must match pattern ^[a-zA-Z0-9_-]+$"

C19_CreatedAtKept ==
  [][\A p \in Procs :
       (UpdateReturns(p) /\ last'.err = Nil) =>
         Get(store', inp[p].ID).agent.CreatedAt = Get(store, inp[p].ID).agent.CreatedAt]_vars

\* C20 as stated: in every interleaving of concurrent Update calls on one
\* id, a successful write leaves the record with an updatedAt greater than
\* the updatedAt stored immediately before the write.
C20_UpdatedAtAdvances ==
  [][\A p \in Procs :
       (UpdateReturns(p) /\ last'.err = Nil) =>
         Get(store', inp[p].ID).agent.UpdatedAt > Get(store, inp[p].ID).agent.UpdatedAt]_vars

\* every stored record that was written by the service carries the card and
\* the tags of one single request
CardAndTagsOfOneRequest ==
  \A i \in 1..Len(store) :
    \/ store[i].UpdatedAt = 0
    \/ \E pl \in load.payloads : store[i].Card = pl.Card /\ store[i].Tags = pl.Tags

\* C21: Update is never partial: after a successful Update the stored card
\* and tags are exactly the card and tags of that Update's input, and when
\* Updates of one id run concurrently the stored card and tags always come
\* from one and the same request, never the card of one with the tags of
\* another.
C21_UpdateReplacesBoth ==
  /\ []CardAndTagsOfOneRequest
  /\ [][\A p \in Procs :
          (UpdateReturns(p) /\ last'.err = Nil) =>
            /\ Get(store', inp[p].ID).agent.Card = inp[p].Card
            /\ Get(store', inp[p].ID).agent.Tags = inp[p].Tags]_vars

C21_Witness ==
  /\ last.op = "Update"
  /\ last.err = Nil
  /\ last.in.Card = CardB
  /\ last.in.Tags = <<"prod">>
  /\ last.out.UpdatedAt < clock
  /\ Get(store, last.in.ID).agent = last.out
  /\ \E p \in Procs : p # last.proc /\ pc[p] = "update_store"
                        /\ inp[p].ID = last.in.ID /\ inp[p].Card = CardA

\* the record the store holds under key k has id k, and no other record has
KeyIsID ==
  \A k \in StoredIDs(store) :
    /\ Get(store, k).agent.ID = k
    /\ Cardinality({i \in 1..Len(store) : store[i].ID = k}) = 1

\* C23: the id of a record never changes: in every reachable state the
\* record stored under key k has id k, and a successful Update for input
\* id k returns a record with id k, changes no record under another key and
\* adds or removes no key.
C23_IDImmutable ==
  /\ []KeyIsID
  /\ [][\A p \in Procs :
          (UpdateReturns(p) /\ last'.err = Nil) =>
            /\ last'.out.ID = inp[p].ID
            /\ StoredIDs(store') = StoredIDs(store)
            /\ \A k \in StoredIDs(store) \ {inp[p].ID} : Get(store', k) = Get(store, k)]_vars

C23_Witness ==
  /\ last.op = "Update"
  /\ last.err = Nil
  /\ last.out.ID = last.in.ID
  /\ Len(store) = 5
  /\ store[5] = last.out
  /\ store[1].ID # last.in.ID

\* C24: Update does not check the id: an Update with a valid card and an id
\* that is empty, longer than 64 or holds a forbidden character returns
\* NotFound, since no record has such an id, and never an error of the id
\* check.
C24_UpdateSkipsIDCheck ==
  (/\ last.op = "Update"
   /\ ValidateAgentCard(last.in.Card) = Nil
   /\ \/ Len(last.in.ID) = 0
      \/ Len(last.in.ID) > 64
      \/ \E i \in 1..Len(last.in.ID) : last.in.ID[i] \notin IDChars)
  => /\ last.err = ErrNotFound
     /\ last.calls = <<"GetAgent">>

C24_Witness ==
  /\ last.op = "Update"
  /\ last.in.ID = <<"a", "@">>
  /\ last.in.Card = CardA
  /\ last.err = ErrNotFound
  /\ store # <<>>

\* C29: every record the Registry has stored passes validation: its id
\* passes the id check and its card passes ValidateAgentCard.
C29_StoredRecordsValid ==
  \A i \in 1..Len(store) :
    /\ validateAgentID(store[i].ID) = Nil
    /\ ValidateAgentCard(store[i].Card) = Nil

C29_Witness ==
  /\ store # <<>>
  /\ last.op \in {"Create", "Update"}
  /\ last.in.ID = store[1].ID
  /\ ValidateAgentCard(last.in.Card) # Nil
  /\ last.err = ValidateAgentCard(last.in.Card)
  /\ store[1].UpdatedAt > store[1].CreatedAt

\* C28: an Update that races with a Delete of the same id does not bring
\* the record back: when the Delete has succeeded and no Create of the id
\* has followed, the Update's store call fails with NotFound and a Get on
\* the id yields NotFound; otherwise the Update had its record and succeeds.
C28_NoResurrection ==
  [][\A p \in Procs :
       UpdateReturns(p) =>
         IF inp[p].ID \in deleted
         THEN /\ last'.err = ErrNotFound
              /\ Get(store', inp[p].ID).err = ErrNotFound
         ELSE last'.err = Nil]_vars

C28_Witness ==
  /\ last.op = "Update"
  /\ last.err = ErrNotFound
  /\ last.calls = <<"GetAgent", "UpdateAgent">>
  /\ deleted = {last.in.ID}
  /\ store = <<>>
  /\ \A p \in Procs : pc[p] = "idle"
  /\ Get(store, last.in.ID).err = ErrNotFound

\* C30: each operation touches its own record only: a step of Create,
\* Update or Delete on id k leaves the record under every other id as it
\* is, and Get and List leave the whole store as it is.
C30_FrameEffects ==
  [][/\ \A p \in Procs :
          (CreateReturns(p) \/ UpdateReturns(p)) =>
            \A k \in (StoredIDs(store) \cup StoredIDs(store')) \ {inp[p].ID} :
              Get(store', k) = Get(store, k)
     /\ (CallReturns /\ last'.op = "Delete") =>
          \A k \in (StoredIDs(store) \cup StoredIDs(store')) \ {last'.in.ID} :
            Get(store', k) = Get(store, k)
     /\ (CallReturns /\ last'.op \in {"Get", "List"}) => store' = store
     /\ ~CallReturns => store' = store]_vars

C30_Witness ==
  /\ last.op = "Delete"
  /\ last.err = Nil
  /\ store = Tail(SeedList)
  /\ last.in.ID \notin StoredIDs(store)

\* C25: the HTTP boundary answers each outcome with one fixed status and
\* code: a successful create 201, a create of an id already present 409
\* AGENT_EXISTS, a body that does not decode 400 INVALID_JSON, NotFound from
\* get, update, delete or the public card fetch 404 AGENT_NOT_FOUND, a
\* successful delete 204 with an empty body, and any other error of the
\* public card fetch 500 INTERNAL_ERROR.
C25_StatusMapping ==
  /\ (last.op = "Create" /\ last.err = Nil) => last.http.status = 201
  /\ (last.op = "Create" /\ last.err = ErrAlreadyExists) =>
       (last.http.status = 409 /\ last.http.code = "AGENT_EXISTS")
  /\ last.op = "Decode" => (last.http.status = 400 /\ last.http.code = "INVALID_JSON")
  /\ (last.op \in {"Get", "Update", "Delete", "GetCard"} /\ last.err = ErrNotFound) =>
       (last.http.status = 404 /\ last.http.code = "AGENT_NOT_FOUND")
  /\ (last.op = "Delete" /\ last.err = Nil) =>
       (last.http.status = 204 /\ last.http.body = "empty")
  /\ (last.op = "GetCard" /\ last.err \notin {Nil, ErrNotFound}) =>
       (last.http.status = 500 /\ last.http.code = "INTERNAL_ERROR")

C25_Witness ==
  /\ last.op = "GetCard"
  /\ last.err = ErrUnavailable
  /\ last.http = [status |-> 500, code |-> "INTERNAL_ERROR", body |-> "error"]
  /\ last.in.ID \in StoredIDs(store)

\* C26: NewQdrantStore returns a store only if the client was created and
\* the first Ping succeeded; when either fails it returns an error and no
\* store, and after a failed Ping the client it opened has been closed, once.
C26_FailFast ==
  qdrant.phase = "built" =>
    /\ qdrant.store => (qdrant.created /\ qdrant.healthy /\ qdrant.err = Nil)
    /\ ~(qdrant.created /\ qdrant.healthy) => (~qdrant.store /\ qdrant.err # Nil)
    /\ (qdrant.created /\ ~qdrant.healthy) =>
         (qdrant.s.client = "closed" /\ qdrant.s.releases = 1)
    /\ ~qdrant.created => qdrant.s.client = "none"

\* the client was created, the first Ping failed and NewQdrantStore returned
C26_Witness ==
  /\ qdrant.phase = "built"
  /\ qdrant.created /\ ~qdrant.healthy
  /\ ~qdrant.store /\ qdrant.s.client = "closed"
  /\ qdrant.err.msg[1] = "failed to connect to qdrant: "

\* C27: however many times Close is called on a store, the client is
\* released once, and every call after the first returns nil.
C27_CloseOnce ==
  qdrant.closes >= 1 =>
    /\ qdrant.s.releases = 1
    /\ qdrant.closes >= 2 => qdrant.ret = Nil

====
